---------------------------- MODULE Spec2Model ----------------------------
(***************************************************************************)
(* Model of the two creational-pattern examples of ts-design-patterns:     *)
(*   - the builder example (Pizza / Sandwich, PizzaMaker / SandwichMaker,  *)
(*     the KitchenManager director and the two director-less helpers);     *)
(*   - the factory example (Character / Mage / Warrior, CharacterFactory). *)
(*                                                                         *)
(* Objects live in heaps (sequences indexed by object identity) so that    *)
(* references and aliasing are modelled as the program has them: a cook    *)
(* holds a reference to its in-progress product, the director holds        *)
(* references to cooks, and getResult hands out a reference.               *)
(***************************************************************************)
EXTENDS Integers, Sequences, FiniteSets, TLC

VARIABLES
    products,      \* heap of Pizza / Sandwich objects, by identity
    cooks,         \* heap of PizzaMaker / SandwichMaker objects, by identity
    kmStatus,      \* "none" | "constructed": whether the KitchenManager exists
    kmName,        \* KitchenManager.name
    managedCooks,  \* KitchenManager.managedCooks: sequence of cook identities
    activeCook,    \* KitchenManager.activeCook: a cook identity
    characters,    \* the Character objects created by the factory so far
    call,          \* the last call made: operation, receiver, arguments, result
    out,           \* the console lines emitted by the last call
    retrieved,     \* identities of the products handed out by getResult
    passed,        \* per cook: the value last passed to each build step since
                   \* the cook's in-progress product was allocated
    givenCooks,    \* the cooks the KitchenManager was constructed with
    calls,         \* the number of calls the builder example's client has made
    fieldDeclarationsKept
                   \* how the program is run: whether the class field
                   \* declarations of the source are kept as field
                   \* definitions in the JavaScript that is executed

vars == <<products, cooks, kmStatus, kmName, managedCooks, activeCook,
          characters, call, out, retrieved, passed, givenCooks, calls,
          fieldDeclarationsKept>>

kitchenVars == <<products, cooks, kmStatus, kmName, managedCooks, activeCook,
                 retrieved, passed, givenCooks, calls>>

\* The way the program is run is fixed before its first statement.
buildVars == <<fieldDeclarationsKept>>

managerVars == <<kmStatus, kmName, managedCooks, activeCook, givenCooks>>

(***************************************************************************)
(* Bounds of the model.                                                    *)
(***************************************************************************)
MaxCooks == 3
MaxCalls == 5
MaxGivenCooks == 2
MaxCharacters == 4
RandomScale == 4

(***************************************************************************)
(* Values shared by both examples.                                         *)
(***************************************************************************)
\* The value of a field that was declared but never assigned.
Undefined == "<undefined>"

\* No object: the result of a call that returns void or that threw.
Null == 0

NoError == ""

Call(op, self, args, ret, error) ==
    [op |-> op, self |-> self, args |-> args, ret |-> ret, error |-> error]

NoCall == Call("", Null, <<>>, Null, NoError)

\* The record of the values passed to a cook's build steps.
Passed(base, meat, cheese) ==
    [prepareBase |-> base, addMeat |-> meat, addCheese |-> cheese]

NothingPassed == Passed(Undefined, Undefined, Undefined)

(***************************************************************************)
(*                        THE FACTORY EXAMPLE                              *)
(***************************************************************************)
CharacterNames == {"John", "Alicia"}

\* The weapons a caller may pass: the CharacterWeapon union and, since
\* createNewCharacter tests the string at run time, strings outside it.
WeaponInputs == {"Hands", "Scepter", "Axe", "Sword", "Hammer", "Unknown", "Bow"}

\* Math.random() yields k / RandomScale for k in RandomDraws, a value of [0, 1).
RandomDraws == 0 .. (RandomScale - 1)

UnsupportedWeaponError == "This weapon is not available for standard characters!"

mageWeaponsMap == [Hands |-> "Hands", Scepter |-> "Scepter"]

warriorWeaponsMap ==
    [Hands |-> "Hands", Axe |-> "Axe", Sword |-> "Sword", Hammer |-> "Hammer"]

ObjectKeys(map) == DOMAIN map

\* Character's constructor: the fields and the derived identifier.
Character(name, role, type, level) ==
    [name |-> name, role |-> role, level |-> level, type |-> type,
     identifier |->
        name \o " [Lvl " \o ToString(level) \o " " \o type \o " " \o role \o "]"]

\* A subclass declares again, without an initialiser and without
\* `declare`, a field its superclass constructor has assigned
\* (`type: MageType;`, `type: WarriorType;`).  The source names no build,
\* and what the declaration does depends on how the TypeScript is turned
\* into JavaScript:
\*   - kept as a class field (the file run directly by Node, which only
\*     strips the type annotations, or compiled with class fields emitted
\*     as definitions): the field is defined anew, as undefined, once
\*     super() has returned;
\*   - dropped (compiled with class fields emitted as assignments): the
\*     declaration emits nothing and the value assigned by super() stays.
RedeclaredField(value) ==
    IF fieldDeclarationsKept THEN Undefined ELSE value

\* Mage's constructor: super(name, "Mage", type, level), the redeclared
\* type field, then usesScepter.
Mage(name, level, type, usesScepter) ==
    [Character(name, "Mage", type, level) EXCEPT !.type = RedeclaredField(@)]
    @@ [usesScepter |-> usesScepter]

\* Warrior's constructor: super(name, "Warrior", type, level), the
\* redeclared type field, then weapon.
Warrior(name, level, type, weapon) ==
    [Character(name, "Warrior", type, level) EXCEPT !.type = RedeclaredField(@)]
    @@ [weapon |-> weapon]

\* isOverHalf = Math.random() > 0.5, with Math.random() = draw / RandomScale.
isOverHalf(draw) == 2 * draw > RandomScale

getRandomType(role, draw) ==
    IF role = "Mage"
    THEN IF isOverHalf(draw) THEN "Fire" ELSE "Ice"
    ELSE IF isOverHalf(draw) THEN "Barbarian" ELSE "Paladin"

\* A mutant of createNewCharacter: the warrior set is tested first.
createNewCharacterWarriorFirst(name, weapon, draw) ==
    IF weapon \in ObjectKeys(warriorWeaponsMap)
    THEN [error |-> NoError,
          value |-> Warrior(name, 1, getRandomType("Warrior", draw), "Sword")]
    ELSE IF weapon \in ObjectKeys(mageWeaponsMap)
    THEN [error |-> NoError,
          value |-> Mage(name, 1, getRandomType("Mage", draw), TRUE)]
    ELSE [error |-> UnsupportedWeaponError, value |-> Null]

\* A mutant of createNewCharacter: an unknown weapon falls back to a Warrior.
createNewCharacterNoThrow(name, weapon, draw) ==
    IF weapon \in ObjectKeys(mageWeaponsMap)
    THEN [error |-> NoError,
          value |-> Mage(name, 1, getRandomType("Mage", draw), TRUE)]
    ELSE [error |-> NoError,
          value |-> Warrior(name, 1, getRandomType("Warrior", draw), "Sword")]

\* The outcome of createNewCharacter: the object returned, or the error thrown.
createNewCharacter(name, weapon, draw) ==
    IF weapon \in ObjectKeys(mageWeaponsMap)
    THEN [error |-> NoError,
          value |-> Mage(name, 1, getRandomType("Mage", draw), TRUE)]
    ELSE IF weapon \in ObjectKeys(warriorWeaponsMap)
    THEN [error |-> NoError,
          value |-> Warrior(name, 1, getRandomType("Warrior", draw), "Sword")]
    ELSE [error |-> UnsupportedWeaponError, value |-> Null]

\* The line useAbility prints for a character.
useAbilityLine(c) ==
    IF c.role = "Mage"
    THEN LET actionSuffix == IF c.usesScepter THEN " with their scepter!"
                                              ELSE " using their magic hands!"
         IN  IF c.type = "Fire"
             THEN c.identifier \o " casted a Fireball " \o actionSuffix
             ELSE c.identifier \o " casted an Iceball " \o actionSuffix
    ELSE c.identifier \o " swings their " \o c.weapon

\* characterFactory.createNewCharacter(name, weapon); the caller keeps the
\* character returned.
CreateNewCharacter ==
    \E name \in CharacterNames, weapon \in WeaponInputs, draw \in RandomDraws :
        LET r == createNewCharacter(name, weapon, draw) IN
        /\ Len(characters) < MaxCharacters
        /\ characters' = IF r.error = NoError
                         THEN Append(characters, r.value)
                         ELSE characters
        /\ call' = Call("createNewCharacter", Null, <<name, weapon>>,
                        IF r.error = NoError THEN Len(characters) + 1 ELSE Null,
                        r.error)
        /\ out' = <<>>
        /\ UNCHANGED <<kitchenVars, buildVars>>

\* character.useAbility() on a character created earlier.
UseAbility ==
    \E i \in DOMAIN characters :
        /\ call' = Call("useAbility", i, <<>>, Null, NoError)
        /\ out' = <<useAbilityLine(characters[i])>>
        /\ UNCHANGED <<characters, kitchenVars, buildVars>>

(***************************************************************************)
(*                        THE BUILDER EXAMPLE                              *)
(***************************************************************************)
PizzaMakerNames == {"Anna"}

SandwichMakerNames == {"Jeremy"}

ManagerNames == {"Melissa"}

Foods == {"pizza", "sandwich"}

Bases == {"wheat"}

Meats == {"pepperoni"}

Cheeses == {"cheddar"}

\* The orders placed: the two of the example.
Orders ==
    {[food |-> "pizza", base |-> "bread", meat |-> "ground beef",
      cheese |-> "mozzarella"],
     [food |-> "sandwich", base |-> "whole grain", meat |-> "pastrami",
      cheese |-> "cheddar"]}

NoCooksError == "A kitchen manager must have cooks!"

\* new Pizza(): the three declared fields, none assigned.
Pizza ==
    [class |-> "Pizza", flour |-> Undefined, topping |-> Undefined,
     cheese |-> Undefined]

\* new Sandwich()
Sandwich ==
    [class |-> "Sandwich", bread |-> Undefined, filling |-> Undefined,
     cheese |-> Undefined]

\* new PizzaMaker(name), its result being the product of identity result.
PizzaMaker(name, result) ==
    [class |-> "PizzaMaker", name |-> name, result |-> result]

\* new SandwichMaker(name)
SandwichMaker(name, result) ==
    [class |-> "SandwichMaker", name |-> name, result |-> result]

\* The heaps after `new CookType(name)`: a product is allocated for the cook.
NewCook(CookType, name, ps, cs) ==
    IF CookType = "PizzaMaker"
    THEN [products |-> Append(ps, Pizza),
          cooks |-> Append(cs, PizzaMaker(name, Len(ps) + 1))]
    ELSE [products |-> Append(ps, Sandwich),
          cooks |-> Append(cs, SandwichMaker(name, Len(ps) + 1))]

\* cook.prepareBase(base): the product heap afterwards.
prepareBase(ps, cook, base) ==
    IF cook.class = "PizzaMaker"
    THEN [ps EXCEPT ![cook.result].flour = base]
    ELSE [ps EXCEPT ![cook.result].bread = base]

prepareBaseLine(cook, base) ==
    IF cook.class = "PizzaMaker"
    THEN cook.name \o " is preparing the pizza base! " \o base
                   \o " flour will be used."
    ELSE cook.name \o " is preparing the sandwich bread! " \o base
                   \o " bread will be used."

\* A mutant of addMeat: the value lands in the cheese field.
addMeatIntoCheese(ps, cook, meat) ==
    [ps EXCEPT ![cook.result].cheese = meat]

\* cook.addMeat(meat)
addMeat(ps, cook, meat) ==
    IF cook.class = "PizzaMaker"
    THEN [ps EXCEPT ![cook.result].topping = meat]
    ELSE [ps EXCEPT ![cook.result].filling = meat]

addMeatLine(cook, meat) ==
    IF cook.class = "PizzaMaker"
    THEN cook.name \o " is adding the pizza topping! " \o meat
                   \o " will be used."
    ELSE cook.name \o " is adding filling the sandwich! " \o meat
                   \o " will be used."

\* cook.addCheese(cheese)
addCheese(ps, cook, cheese) ==
    [ps EXCEPT ![cook.result].cheese = cheese]

addCheeseLine(cook, cheese) ==
    IF cook.class = "PizzaMaker"
    THEN cook.name \o " is adding cheese to the pizza! " \o cheese
                   \o " will be used."
    ELSE cook.name \o " is adding cheese to the sandwich! " \o cheese
                   \o " will be used."

\* cook.getResult(): the identity of the product returned.
getResult(cook) == cook.result

getResultLine(cook) ==
    IF cook.class = "PizzaMaker" THEN "Pizza's ready!" ELSE "Sandwich is ready!"

\* A mutant of startNew: the in-progress product is kept.
startNewKeepsResult(ps, cs, c) ==
    [products |-> Append(ps, IF cs[c].class = "PizzaMaker" THEN Pizza ELSE Sandwich),
     cooks |-> cs]

\* cooks[c].startNew(): a fresh product is allocated and becomes the result.
startNew(ps, cs, c) ==
    [products |-> Append(ps, IF cs[c].class = "PizzaMaker" THEN Pizza ELSE Sandwich),
     cooks |-> [cs EXCEPT ![c].result = Len(ps) + 1]]

\* The three build steps and getResult, as both director-less helpers and
\* fulfillOrder make them on one cook.
BuildSteps(ps, cook, base, meat, cheese) ==
    [products |-> addCheese(addMeat(prepareBase(ps, cook, base), cook, meat),
                            cook, cheese),
     ret |-> getResult(cook),
     out |-> <<prepareBaseLine(cook, base), addMeatLine(cook, meat),
               addCheeseLine(cook, cheese), getResultLine(cook)>>]

createPizzaWithoutKitchenManager(ps, pizzaMaker, flour, topping, cheese) ==
    BuildSteps(ps, pizzaMaker, flour, topping, cheese)

createSandwichWithoutKitchenManager(ps, sandwichMaker, bread, filling, cheese) ==
    BuildSteps(ps, sandwichMaker, bread, filling, cheese)

(***************************************************************************)
(* The director.                                                           *)
(***************************************************************************)
\* The cook lists a caller may pass to the constructor: none, or up to
\* MaxGivenCooks of the cooks that exist, in any order, the same cook
\* possibly more than once.
CookLists(cs) ==
    UNION {[1 .. n -> DOMAIN cs] : n \in 0 .. MaxGivenCooks}

\* A mutant of KitchenManager: the last cook given starts as the active one.
KitchenManagerLastActive(name, cookList) ==
    IF Len(cookList) = 0
    THEN [error |-> NoCooksError]
    ELSE [error |-> NoError, name |-> name, managedCooks |-> cookList,
          activeCook |-> cookList[Len(cookList)]]

\* new KitchenManager(name, ...cooks): the fields set, or the error thrown.
KitchenManager(name, cookList) ==
    IF Len(cookList) = 0
    THEN [error |-> NoCooksError]
    ELSE [error |-> NoError, name |-> name, managedCooks |-> cookList,
          activeCook |-> cookList[1]]

\* (food === "pizza" && PizzaMaker) || SandwichMaker
RequiredCookType(food) ==
    IF food = "pizza" THEN "PizzaMaker" ELSE "SandwichMaker"

\* cook instanceof CookType
InstanceOf(cook, CookType) == cook.class = CookType

\* A mutant of FindCook: the last match is taken.
FindLastCook(mc, cs, CookType) ==
    LET hits == {i \in DOMAIN mc : InstanceOf(cs[mc[i]], CookType)}
    IN  IF hits = {} THEN Null
        ELSE mc[CHOOSE i \in hits : \A j \in hits : j <= i]

\* Array.prototype.find over managedCooks: the first cook that is an
\* instance of CookType, Null (undefined) when there is none.
FindCook(mc, cs, CookType) ==
    LET hits == {i \in DOMAIN mc : InstanceOf(cs[mc[i]], CookType)}
    IN  IF hits = {} THEN Null
        ELSE mc[CHOOSE i \in hits : \A j \in hits : i <= j]

\* A mutant of findSuitableCook: the push is made for a cook that was found too.
findSuitableCookAlwaysPushes(food, ps, cs, mc, ac) ==
    LET RequiredType == RequiredCookType(food) IN
    IF ~InstanceOf(cs[ac], RequiredType)
    THEN LET oneOfOurCooks == FindCook(mc, cs, RequiredType) IN
         IF oneOfOurCooks = Null
         THEN LET made == NewCook(RequiredType, "George", ps, cs) IN
              [products |-> made.products, cooks |-> made.cooks,
               managedCooks |-> Append(mc, Len(made.cooks)),
               activeCook |-> Len(made.cooks),
               out |-> <<"Changing currently active cook!">>]
         ELSE [products |-> ps, cooks |-> cs,
               managedCooks |-> Append(mc, oneOfOurCooks),
               activeCook |-> oneOfOurCooks,
               out |-> <<"Changing currently active cook!">>]
    ELSE [products |-> ps, cooks |-> cs, managedCooks |-> mc,
          activeCook |-> ac, out |-> <<>>]

\* A mutant of findSuitableCook: the active cook is kept whatever its type.
findSuitableCookKeepsActive(food, ps, cs, mc, ac) ==
    [products |-> ps, cooks |-> cs, managedCooks |-> mc, activeCook |-> ac,
     out |-> <<>>]

\* this.findSuitableCook(food): the heaps and the director's fields afterwards.
findSuitableCook(food, ps, cs, mc, ac) ==
    LET RequiredType == RequiredCookType(food) IN
    IF ~InstanceOf(cs[ac], RequiredType)
    THEN LET oneOfOurCooks == FindCook(mc, cs, RequiredType) IN
         IF oneOfOurCooks = Null
         THEN LET made == NewCook(RequiredType, "George", ps, cs) IN
              [products |-> made.products, cooks |-> made.cooks,
               managedCooks |-> Append(mc, Len(made.cooks)),
               activeCook |-> Len(made.cooks),
               out |-> <<"Changing currently active cook!">>]
         ELSE [products |-> ps, cooks |-> cs, managedCooks |-> mc,
               activeCook |-> oneOfOurCooks,
               out |-> <<"Changing currently active cook!">>]
    ELSE [products |-> ps, cooks |-> cs, managedCooks |-> mc,
          activeCook |-> ac, out |-> <<>>]

\* kitchenManager.fulfillOrder(order): the state afterwards and the identity
\* of the product returned.
fulfillOrder(order, ps, cs, mc, ac) ==
    LET found == findSuitableCook(order.food, ps, cs, mc, ac)
        fresh == startNew(found.products, found.cooks, found.activeCook)
        built == BuildSteps(fresh.products, fresh.cooks[found.activeCook],
                            order.base, order.meat, order.cheese)
    IN  [products |-> built.products, cooks |-> fresh.cooks,
         managedCooks |-> found.managedCooks, activeCook |-> found.activeCook,
         ret |-> built.ret, out |-> found.out \o built.out]

(***************************************************************************)
(* The program's state at load time: nothing has been created yet.        *)
(***************************************************************************)
Init ==
    /\ products = <<>>
    /\ cooks = <<>>
    /\ kmStatus = "none"
    /\ kmName = ""
    /\ managedCooks = <<>>
    /\ activeCook = Null
    /\ characters = <<>>
    /\ call = NoCall
    /\ out = <<>>
    /\ retrieved = {}
    /\ passed = <<>>
    /\ givenCooks = <<>>
    /\ calls = 0
    /\ fieldDeclarationsKept \in BOOLEAN

\* The builder example once a cook has been constructed, as by
\*   const pizzaMaker = new PizzaMaker("Anna");        or
\*   const sandwichMaker = new SandwichMaker("Jeremy");
InitBuilder ==
    \E made \in {NewCook("PizzaMaker", "Anna", <<>>, <<>>),
                 NewCook("SandwichMaker", "Jeremy", <<>>, <<>>)} :
        /\ products = made.products
        /\ cooks = made.cooks
        /\ kmStatus = "none"
        /\ kmName = ""
        /\ managedCooks = <<>>
        /\ activeCook = Null
        /\ characters = <<>>
        /\ call = NoCall
        /\ out = <<>>
        /\ retrieved = {}
        /\ passed = <<NothingPassed>>
        /\ givenCooks = <<>>
        /\ calls = 0
        /\ fieldDeclarationsKept \in BOOLEAN

\* The client makes one more call.
OneMoreCall ==
    /\ calls < MaxCalls
    /\ calls' = calls + 1

(***************************************************************************)
(* The calls of the builder example.                                       *)
(***************************************************************************)
\* new PizzaMaker(name)
NewPizzaMaker ==
    \E name \in PizzaMakerNames :
        LET made == NewCook("PizzaMaker", name, products, cooks) IN
        /\ Len(cooks) < MaxCooks
        /\ products' = made.products
        /\ cooks' = made.cooks
        /\ passed' = Append(passed, NothingPassed)
        /\ OneMoreCall
        /\ call' = Call("new PizzaMaker", Null, <<name>>, Len(made.cooks), NoError)
        /\ out' = <<>>
        /\ UNCHANGED <<managerVars, retrieved, characters, buildVars>>

\* new SandwichMaker(name)
NewSandwichMaker ==
    \E name \in SandwichMakerNames :
        LET made == NewCook("SandwichMaker", name, products, cooks) IN
        /\ Len(cooks) < MaxCooks
        /\ products' = made.products
        /\ cooks' = made.cooks
        /\ passed' = Append(passed, NothingPassed)
        /\ OneMoreCall
        /\ call' = Call("new SandwichMaker", Null, <<name>>, Len(made.cooks), NoError)
        /\ out' = <<>>
        /\ UNCHANGED <<managerVars, retrieved, characters, buildVars>>

\* cook.prepareBase(base), called by the client on a cook it holds.
PrepareBase ==
    \E c \in DOMAIN cooks, base \in Bases :
        /\ products' = prepareBase(products, cooks[c], base)
        /\ passed' = [passed EXCEPT ![c].prepareBase = base]
        /\ OneMoreCall
        /\ call' = Call("prepareBase", c, <<base>>, Null, NoError)
        /\ out' = <<prepareBaseLine(cooks[c], base)>>
        /\ UNCHANGED <<cooks, managerVars, retrieved, characters, buildVars>>

\* cook.addMeat(meat)
AddMeat ==
    \E c \in DOMAIN cooks, meat \in Meats :
        /\ products' = addMeat(products, cooks[c], meat)
        /\ passed' = [passed EXCEPT ![c].addMeat = meat]
        /\ OneMoreCall
        /\ call' = Call("addMeat", c, <<meat>>, Null, NoError)
        /\ out' = <<addMeatLine(cooks[c], meat)>>
        /\ UNCHANGED <<cooks, managerVars, retrieved, characters, buildVars>>

\* cook.addCheese(cheese)
AddCheese ==
    \E c \in DOMAIN cooks, cheese \in Cheeses :
        /\ products' = addCheese(products, cooks[c], cheese)
        /\ passed' = [passed EXCEPT ![c].addCheese = cheese]
        /\ OneMoreCall
        /\ call' = Call("addCheese", c, <<cheese>>, Null, NoError)
        /\ out' = <<addCheeseLine(cooks[c], cheese)>>
        /\ UNCHANGED <<cooks, managerVars, retrieved, characters, buildVars>>

\* cook.getResult(): the client now holds the product.
GetResult ==
    \E c \in DOMAIN cooks :
        /\ retrieved' = retrieved \cup {getResult(cooks[c])}
        /\ OneMoreCall
        /\ call' = Call("getResult", c, <<>>, getResult(cooks[c]), NoError)
        /\ out' = <<getResultLine(cooks[c])>>
        /\ UNCHANGED <<products, cooks, managerVars, passed, characters, buildVars>>

\* cook.startNew()
StartNew ==
    \E c \in DOMAIN cooks :
        LET fresh == startNew(products, cooks, c) IN
        /\ products' = fresh.products
        /\ cooks' = fresh.cooks
        /\ passed' = [passed EXCEPT ![c] = NothingPassed]
        /\ OneMoreCall
        /\ call' = Call("startNew", c, <<>>, Null, NoError)
        /\ out' = <<>>
        /\ UNCHANGED <<managerVars, retrieved, characters, buildVars>>

\* createPizzaWithoutKitchenManager(pizzaMaker, flour, topping, cheese)
CreatePizzaWithoutKitchenManager ==
    \E c \in DOMAIN cooks, flour \in Bases, topping \in Meats, cheese \in Cheeses :
        LET built == createPizzaWithoutKitchenManager(products, cooks[c],
                                                      flour, topping, cheese) IN
        /\ cooks[c].class = "PizzaMaker"
        /\ products' = built.products
        /\ retrieved' = retrieved \cup {built.ret}
        /\ passed' = [passed EXCEPT ![c] = Passed(flour, topping, cheese)]
        /\ OneMoreCall
        /\ call' = Call("createPizzaWithoutKitchenManager", c,
                        <<flour, topping, cheese>>, built.ret, NoError)
        /\ out' = built.out
        /\ UNCHANGED <<cooks, managerVars, characters, buildVars>>

\* createSandwichWithoutKitchenManager(sandwichMaker, bread, filling, cheese)
CreateSandwichWithoutKitchenManager ==
    \E c \in DOMAIN cooks, bread \in Bases, filling \in Meats, cheese \in Cheeses :
        LET built == createSandwichWithoutKitchenManager(products, cooks[c],
                                                         bread, filling, cheese) IN
        /\ cooks[c].class = "SandwichMaker"
        /\ products' = built.products
        /\ retrieved' = retrieved \cup {built.ret}
        /\ passed' = [passed EXCEPT ![c] = Passed(bread, filling, cheese)]
        /\ OneMoreCall
        /\ call' = Call("createSandwichWithoutKitchenManager", c,
                        <<bread, filling, cheese>>, built.ret, NoError)
        /\ out' = built.out
        /\ UNCHANGED <<cooks, managerVars, characters, buildVars>>

\* new KitchenManager(name, ...cooks)
NewKitchenManager ==
    /\ kmStatus # "constructed"
    /\ \E name \in ManagerNames, cookList \in CookLists(cooks) :
        LET km == KitchenManager(name, cookList) IN
        /\ IF km.error = NoError
           THEN /\ kmStatus' = "constructed"
                /\ kmName' = km.name
                /\ managedCooks' = km.managedCooks
                /\ activeCook' = km.activeCook
                /\ givenCooks' = cookList
           ELSE UNCHANGED <<kmStatus, kmName, managedCooks, activeCook,
                            givenCooks>>
        /\ OneMoreCall
        /\ call' = Call("new KitchenManager", Null, <<name, cookList>>, Null,
                        km.error)
        /\ out' = <<>>
        /\ UNCHANGED <<products, cooks, retrieved, passed, characters, buildVars>>

\* kitchenManager.fulfillOrder(order)
FulfillOrder ==
    \E order \in Orders :
        /\ kmStatus = "constructed"
        /\ \E done \in {fulfillOrder(order, products, cooks, managedCooks,
                                     activeCook)} :
           /\ Len(done.cooks) <= MaxCooks
           /\ products' = done.products
           /\ cooks' = done.cooks
           /\ managedCooks' = done.managedCooks
           /\ activeCook' = done.activeCook
           /\ retrieved' = retrieved \cup {done.ret}
           /\ passed' =
                [c \in DOMAIN done.cooks |->
                    IF c = done.activeCook
                    THEN Passed(order.base, order.meat, order.cheese)
                    ELSE passed[c]]
           /\ OneMoreCall
           /\ call' = Call("fulfillOrder", Null, <<order>>, done.ret, NoError)
           /\ out' = done.out
        /\ UNCHANGED <<kmStatus, kmName, givenCooks, characters, buildVars>>

(***************************************************************************)
(* The two programs.                                                       *)
(***************************************************************************)
\* The builder example without a director: calls on one cook.
NextBuilder ==
    \/ PrepareBase
    \/ AddMeat
    \/ AddCheese
    \/ GetResult
    \/ StartNew
    \/ CreatePizzaWithoutKitchenManager
    \/ CreateSandwichWithoutKitchenManager

\* The director example: the client constructs cooks and the director,
\* places orders, and goes on calling the cooks it holds.
NextKitchen ==
    \/ NewPizzaMaker
    \/ NewSandwichMaker
    \/ PrepareBase
    \/ AddMeat
    \/ AddCheese
    \/ GetResult
    \/ StartNew
    \/ CreatePizzaWithoutKitchenManager
    \/ CreateSandwichWithoutKitchenManager
    \/ NewKitchenManager
    \/ FulfillOrder

NextFactory ==
    \/ CreateNewCharacter
    \/ UseAbility

SpecBuilder == InitBuilder /\ [][NextBuilder]_vars

SpecKitchen == Init /\ [][NextKitchen]_vars

SpecFactory == Init /\ [][NextFactory]_vars

(***************************************************************************)
(*                           THE PROPERTIES                                *)
(***************************************************************************)
\* The three fields of a product, whatever its class.
BaseOf(p) == IF p.class = "Pizza" THEN p.flour ELSE p.bread

MeatOf(p) == IF p.class = "Pizza" THEN p.topping ELSE p.filling

CheeseOf(p) == p.cheese

Range(seq) == {seq[i] : i \in DOMAIN seq}

ReturnsProduct ==
    call.op \in {"getResult", "createPizzaWithoutKitchenManager",
                 "createSandwichWithoutKitchenManager"}

\* C1: every fulfillOrder call returns a product of the kind the order's
\* food names (a Pizza for "pizza", a Sandwich for "sandwich") whose three
\* fields are the order's base, meat and cheese, whatever cook was active
\* and whatever cooks were managed before the call.
C1_FulfillOrderReturnsTheOrder ==
    call.op = "fulfillOrder" =>
        LET order == call.args[1] IN
        /\ call.ret \in DOMAIN products
        /\ products[call.ret] =
             IF order.food = "pizza"
             THEN [class |-> "Pizza", flour |-> order.base,
                   topping |-> order.meat, cheese |-> order.cheese]
             ELSE [class |-> "Sandwich", bread |-> order.base,
                   filling |-> order.meat, cheese |-> order.cheese]

\* C1 witness: a sandwich was ordered while a pizza maker was active, no
\* sandwich maker was managed, and the sandwich came back.
C1_Witness ==
    /\ call.op = "fulfillOrder"
    /\ call.args[1].food = "sandwich"
    /\ \A i \in DOMAIN givenCooks : cooks[givenCooks[i]].class = "PizzaMaker"
    /\ products[call.ret].class = "Sandwich"
    /\ products[call.ret].bread = "whole grain"

\* C2: a product handed out by getResult keeps, through every later call on
\* the builders, the field values it had when it was handed out.
C2_RetrievedProductNeverMutated ==
    [][\A p \in retrieved : products'[p] = products[p]]_vars

\* C3: once prepareBase(b), addMeat(m) and addCheese(c) have been called on
\* a builder of either variant, getResult returns a product whose base,
\* filling and cheese fields are exactly b, m and c.
C3_BuildStepsSetTheFields ==
    (/\ ReturnsProduct
     /\ passed[call.self].prepareBase # Undefined
     /\ passed[call.self].addMeat # Undefined
     /\ passed[call.self].addCheese # Undefined)
    => /\ products[call.ret].class =
            (IF cooks[call.self].class = "PizzaMaker" THEN "Pizza"
                                                      ELSE "Sandwich")
       /\ BaseOf(products[call.ret]) = passed[call.self].prepareBase
       /\ MeatOf(products[call.ret]) = passed[call.self].addMeat
       /\ CheeseOf(products[call.ret]) = passed[call.self].addCheese

\* C3 witness: getResult was called after the three steps were called one
\* by one.
C3_Witness ==
    /\ call.op = "getResult"
    /\ calls = 4
    /\ passed[call.self] = Passed("wheat", "pepperoni", "cheddar")
    /\ BaseOf(products[call.ret]) = "wheat"

\* C4: startNew gives the builder a fresh empty product: a getResult issued
\* after it returns a product in which every field not set since the
\* startNew is unset, and right after startNew the in-progress product is
\* an empty one that was never handed out.
C4_StartNewLeavesNoResidue ==
    /\ call.op = "getResult" =>
          /\ passed[call.self].prepareBase = Undefined
                => BaseOf(products[call.ret]) = Undefined
          /\ passed[call.self].addMeat = Undefined
                => MeatOf(products[call.ret]) = Undefined
          /\ passed[call.self].addCheese = Undefined
                => CheeseOf(products[call.ret]) = Undefined
    /\ call.op = "startNew" =>
          /\ products[cooks[call.self].result] \in {Pizza, Sandwich}
          /\ cooks[call.self].result \notin retrieved

\* C4 witness: a fully built product was handed out, startNew was called,
\* only the base was set and getResult was called again.
C4_Witness ==
    /\ call.op = "getResult"
    /\ \E q \in retrieved :
          /\ q # call.ret
          /\ BaseOf(products[q]) # Undefined
          /\ MeatOf(products[q]) # Undefined
          /\ CheeseOf(products[q]) # Undefined
    /\ BaseOf(products[call.ret]) # Undefined
    /\ MeatOf(products[call.ret]) = Undefined
    /\ CheeseOf(products[call.ret]) = Undefined

\* C5: constructing a KitchenManager with no cook throws and yields no
\* director; with one or more cooks it succeeds, manages exactly the cooks
\* given, in the order given, and the first of them is the active cook.
C5_ConstructorNeedsCooks ==
    call.op = "new KitchenManager" =>
        LET given == call.args[2] IN
        IF Len(given) = 0
        THEN /\ call.error = "A kitchen manager must have cooks!"
             /\ kmStatus = "none"
        ELSE /\ call.error = NoError
             /\ kmStatus = "constructed"
             /\ managedCooks = given
             /\ activeCook = given[1]

\* C5 witness: a director was constructed with several different cooks.
C5_Witness ==
    /\ call.op = "new KitchenManager"
    /\ kmStatus = "constructed"
    /\ Len(managedCooks) >= 2
    /\ managedCooks[1] # managedCooks[Len(managedCooks)]

KnownMageWeapons == {"Hands", "Scepter"}

KnownWarriorWeapons == {"Hands", "Axe", "Sword", "Hammer"}

\* C6: the mage set is tested first: "Hands", which is in both sets, and
\* "Scepter" always give a Mage, never a Warrior; "Axe", "Sword" and
\* "Hammer" always give a Warrior.
C6_MageSetIsTestedFirst ==
    call.op = "createNewCharacter" =>
        LET weapon == call.args[2] IN
        /\ weapon \in {"Hands", "Scepter"} =>
              /\ call.ret \in DOMAIN characters
              /\ characters[call.ret].role = "Mage"
              /\ "usesScepter" \in DOMAIN characters[call.ret]
        /\ weapon \in {"Axe", "Sword", "Hammer"} =>
              /\ call.ret \in DOMAIN characters
              /\ characters[call.ret].role = "Warrior"
              /\ "weapon" \in DOMAIN characters[call.ret]

\* C6 witness: "Hands" was requested and a Mage came back.
C6_Witness ==
    /\ call.op = "createNewCharacter"
    /\ call.args[2] = "Hands"
    /\ characters[call.ret].role = "Mage"

\* C7: createNewCharacter throws the unsupported-weapon error, and creates
\* no character, exactly when the weapon is in neither weapon set.
C7_UnknownWeaponThrows ==
    [][call'.op = "createNewCharacter" =>
          IF call'.args[2] \notin KnownMageWeapons \cup KnownWarriorWeapons
          THEN /\ call'.error =
                    "This weapon is not available for standard characters!"
               /\ call'.ret = Null
               /\ characters' = characters
          ELSE /\ call'.error = NoError
               /\ call'.ret = Len(characters) + 1
               /\ Len(characters') = Len(characters) + 1]_vars

\* C7 witness: "Unknown" was requested of a factory that had already made
\* characters, and the call threw.
C7_Witness ==
    /\ call.op = "createNewCharacter"
    /\ call.args[2] = "Unknown"
    /\ call.error = UnsupportedWeaponError
    /\ Len(characters) >= 1

\* C8: every character created is at level 1, has a sub-type of its own
\* role's set (Mage: Fire or Ice; Warrior: Barbarian or Paladin) and fixed
\* equipment: a Mage has usesScepter = true and a Warrior has weapon
\* "Sword", whatever weapon was requested.
C8_CharactersAreStandard ==
    \A i \in DOMAIN characters :
        LET c == characters[i] IN
        /\ c.level = 1
        /\ c.role \in {"Mage", "Warrior"}
        /\ c.role = "Mage" => c.type \in {"Fire", "Ice"} /\ c.usesScepter = TRUE
        /\ c.role = "Warrior" =>
              c.type \in {"Barbarian", "Paladin"} /\ c.weapon = "Sword"

\* C9: on fulfillOrder, an active cook of the required variant is kept and
\* the collection is unchanged; otherwise the first managed cook of the
\* required variant becomes active and the collection is unchanged; only
\* when no managed cook is of the required variant is a new cook of that
\* variant, named "George", created, appended at the end and made active.
C9_BuilderSelection ==
    [][call'.op = "fulfillOrder" =>
          LET Required == IF call'.args[1].food = "pizza" THEN "PizzaMaker"
                                                          ELSE "SandwichMaker"
              matches == {i \in DOMAIN managedCooks :
                              cooks[managedCooks[i]].class = Required}
          IN  IF cooks[activeCook].class = Required
              THEN /\ activeCook' = activeCook
                   /\ managedCooks' = managedCooks
                   /\ Len(cooks') = Len(cooks)
              ELSE IF matches # {}
              THEN /\ \E i \in matches :
                         /\ \A j \in matches : i <= j
                         /\ activeCook' = managedCooks[i]
                   /\ managedCooks' = managedCooks
                   /\ Len(cooks') = Len(cooks)
              ELSE /\ Len(cooks') = Len(cooks) + 1
                   /\ activeCook' = Len(cooks')
                   /\ managedCooks' = Append(managedCooks, activeCook')
                   /\ cooks'[activeCook'].class = Required
                   /\ cooks'[activeCook'].name = "George"]_vars

\* C9 witness: an order made the director create "George" and append him.
C9_Witness ==
    /\ call.op = "fulfillOrder"
    /\ out[1] = "Changing currently active cook!"
    /\ cooks[activeCook].name = "George"
    /\ managedCooks = Append(givenCooks, activeCook)

\* C10: once the director is constructed, the active cook is always one of
\* the managed cooks, the cooks given at construction stay where they were,
\* and the collection has grown by at most one cook: a "George" of the one
\* variant that was missing at construction.
C10_ManagedCooksInvariant ==
    kmStatus = "constructed" =>
        /\ activeCook \in Range(managedCooks)
        /\ Len(managedCooks) >= Len(givenCooks)
        /\ SubSeq(managedCooks, 1, Len(givenCooks)) = givenCooks
        /\ Len(managedCooks) <= Len(givenCooks) + 1
        /\ Len(managedCooks) = Len(givenCooks) + 1 =>
              LET george == cooks[managedCooks[Len(managedCooks)]] IN
              /\ george.name = "George"
              /\ \A i \in DOMAIN givenCooks :
                    cooks[givenCooks[i]].class # george.class

\* C10 witness: "George" was added by one order and a later order made a
\* cook given at construction active again.
C10_Witness ==
    /\ kmStatus = "constructed"
    /\ call.op = "fulfillOrder"
    /\ Len(managedCooks) = Len(givenCooks) + 1
    /\ activeCook \in Range(givenCooks)

=============================================================================
